---- MODULE Spec2Model ----
(***************************************************************************)
(* The two PTY brokers of the repository as one state machine.             *)
(*                                                                         *)
(*   variant = "pyrepl"  src/pyrepl.py          FIFO + stdin -> PTY        *)
(*   variant = "proxy"   src/repl_pty_proxy.py  socket clients + stdin     *)
(*                                                                         *)
(* A behaviour is one run of one broker process: Init picks the program,   *)
(* Setup is main() up to the event loop, every other broker action is one  *)
(* handler dispatch of the loop (with the finally block when the handler   *)
(* leaves the loop), and the remaining actions are the environment: the    *)
(* child on the PTY slave, FIFO writers, the local terminal, socket peers, *)
(* and signals.                                                            *)
(***************************************************************************)
EXTENDS Integers, Sequences, FiniteSets

\* ---------------------------------------------------------------- bounds
MaxSend == 2      \* bytes typed on stdin or sent by socket clients in one run
MaxFifo == 2      \* bytes the FIFO writers send in one run
MaxOut == 1       \* bytes the child writes to its terminal in one run
MaxClients == 2   \* socket connections made in one run
MaxSessions == 2  \* FIFO writer sessions (open, send, close) in one run
MaxSig == 1       \* SIGINTs the broker receives in one run
PtyCap == 1       \* bytes the PTY input queue holds before a write would block
MaxOpens == 3     \* os.open calls of reopen_fifo_reader whose outcome is drawn

\* ------------------------------------------------------- program constants
BUFSIZE == 4096   \* the size every os.read / recv asks for

VARIABLES
    variant,      \* which program runs: "pyrepl" | "proxy"
    pc,           \* "start" | "loop" | "done"
    exit,         \* how main() ended: "none" | "normal" | an exception name
    pathState,    \* what is at FIFO_PATH / UDS_PATH: "absent" | "fifo" | "socket" | "other"
    termMode,     \* mode of the local terminal: "cooked" | "raw"
    old_tio,      \* pyrepl's saved termios: "unset" | a mode
    childState,   \* "none" | "alive" | "zombie" | "reaped"
    childSigints, \* SIGINTs delivered to the child
    forks,        \* pty.fork() calls that succeeded
    reaps,        \* waitpid calls that reaped the child
    masterCloses, \* os.close(master_fd) calls that succeeded
    ptyOut,       \* bytes the child wrote, not yet read from the master
    childWrote,   \* number of bytes the child has written (they are 1, 2, ...)
    ptyRoom,      \* bytes the PTY input queue accepts right now
    stdoutLog,    \* bytes written to the local sink
    clientOut,    \* bytes written to each socket client
    sent,         \* per input channel: bytes its peer has sent
    inBuf,        \* per input channel: bytes sent and not yet read by the broker
    got,          \* per input channel: bytes the broker has read
    written,      \* per input channel: bytes the PTY master accepted on its behalf
    peerClosed,   \* input channels whose peer has closed (stdin EOF, client hangup)
    fifoWriters,  \* external writers that hold the FIFO open
    sessions,     \* FIFO writer sessions opened so far
    nConn,        \* socket connections made so far (they are 1, 2, ...)
    backlog,      \* connections waiting in the listener's accept queue
    clients,      \* the proxy's set `clients`
    registered,   \* descriptors registered in the selector
    openFds,      \* descriptors the broker holds open
    nonblockFds,     \* open descriptors that have O_NONBLOCK set
    winsz,        \* last TIOCSWINSZ on the master: "unset" | "applied" | "failed"
    fifoGen,      \* how many times the FIFO reader was reopened
    rpc,          \* place in the reopen branch of the fifo handler, "idle" outside it
    opens,        \* outcomes of the os.open calls reopen_fifo_reader is yet to make
    sleeps,       \* time.sleep(0.05) calls reopen_fifo_reader has made
    stdinEof,     \* history: a stdin handler has read zero bytes
    masterEio,    \* history: "none" | "read" | "write", a master operation failed with EIO
    sigints       \* history: SIGINTs the broker received in its loop

vars == <<variant, pc, exit, pathState, termMode, old_tio, childState, childSigints,
          forks, reaps, masterCloses, ptyOut, childWrote, ptyRoom, stdoutLog,
          clientOut, sent, inBuf, got, written, peerClosed, fifoWriters, sessions,
          nConn, backlog, clients, registered, openFds, nonblockFds, winsz, fifoGen,
          rpc, opens, sleeps, stdinEof, masterEio, sigints>>

\* Groups used in UNCHANGED clauses.
exitVars == <<pc, exit, termMode, registered, openFds, nonblockFds, masterCloses,
              pathState>>
reopenVars == <<fifoGen, rpc, opens, sleeps>>
childVars == <<childState, childSigints, forks, reaps>>
outVars == <<ptyOut, childWrote, stdoutLog, clientOut>>
inVars == <<sent, inBuf, got, written, ptyRoom>>
peerVars == <<peerClosed, fifoWriters, sessions, nConn, backlog>>
histVars == <<stdinEof, masterEio, sigints>>

\* ------------------------------------------------------------ descriptors
MASTER == <<"pty", 0>>        \* master_fd
STDIN == <<"stdin", 0>>       \* sys.stdin.fileno()
FifoReader(g) == <<"fifo", g>>  \* the reader descriptor after g reopens
FIFO_R == FifoReader(0)       \* the FIFO as input channel, and its first reader
fifo_r == FifoReader(fifoGen) \* fifo_r, the current reader descriptor
FIFO_W == <<"fifo_w", 0>>     \* fifo_w_keepalive
SRV == <<"srv", 0>>           \* srv, the listening socket
Conn(i) == <<"client", i>>    \* the i-th accepted connection
Conns == {Conn(i) : i \in 1..MaxClients}
Chan == {STDIN, FIFO_R} \cup Conns

\* ---------------------------------------------------------------- helpers
Min(a, b) == IF a < b THEN a ELSE b
Take(s, n) == SubSeq(s, 1, Min(n, Len(s)))
Drop(s, n) == SubSeq(s, Min(n, Len(s)) + 1, Len(s))

RECURSIVE SumLen(_, _)
SumLen(f, S) ==
    IF S = {} THEN 0
    ELSE LET c == CHOOSE x \in S : TRUE IN Len(f[c]) + SumLen(f, S \ {c})

\* The peers of channel ch may still send.
Budget(ch) ==
    IF ch = FIFO_R THEN Len(sent[FIFO_R]) < MaxFifo
                   ELSE SumLen(sent, Chan \ {FIFO_R}) < MaxSend

SlaveOpen == childState = "alive"

Init ==
    /\ variant \in {"pyrepl", "proxy"}
    /\ pc = "start"
    /\ exit = "none"
    /\ pathState \in (IF variant = "pyrepl" THEN {"absent", "fifo", "other"}
                                            ELSE {"absent", "socket"})
    /\ termMode = "cooked"
    /\ old_tio = "unset"
    /\ childState = "none"
    /\ childSigints = 0
    /\ forks = 0
    /\ reaps = 0
    /\ masterCloses = 0
    /\ ptyOut = <<>>
    /\ childWrote = 0
    /\ ptyRoom = PtyCap
    /\ stdoutLog = <<>>
    /\ clientOut = [c \in Conns |-> <<>>]
    /\ sent = [c \in Chan |-> <<>>]
    /\ inBuf = [c \in Chan |-> <<>>]
    /\ got = [c \in Chan |-> <<>>]
    /\ written = [c \in Chan |-> <<>>]
    /\ peerClosed = {}
    /\ fifoWriters = 0
    /\ sessions = 0
    /\ nConn = 0
    /\ backlog = <<>>
    /\ clients = {}
    /\ registered = {}
    /\ openFds = {STDIN}
    /\ nonblockFds = {}
    /\ winsz = "unset"
    /\ fifoGen = 0
    /\ rpc = "idle"
    /\ opens = <<>>
    /\ sleeps = 0
    /\ stdinEof = FALSE
    /\ masterEio = "none"
    /\ sigints = 0

\* ------------------------------------------------- what the system calls do
\* os.read(fd, 4096) / conn.recv(4096) with `buf` pending: the first 4096 bytes.
ReadChunk(buf) == Take(buf, BUFSIZE)

\* Readiness of the PTY master for reading: data is pending, or the slave side
\* is closed (the read then fails with EIO).
MasterReadable == ptyOut # <<>> \/ ~SlaveOpen

\* Readiness of an input channel: data is pending, or its peer is gone.
StdinReadable == inBuf[STDIN] # <<>> \/ STDIN \in peerClosed
ConnReadable(c) == inBuf[c] # <<>> \/ c \in peerClosed

\* Writers of the FIFO: the external ones and the broker's keepalive writer.
FifoWriterCount == fifoWriters + (IF FIFO_W \in openFds THEN 1 ELSE 0)
FifoReadable == inBuf[FIFO_R] # <<>> \/ FifoWriterCount = 0

\* os.write(master_fd, data) with the slave open: the number of bytes the
\* master accepts. A blocking master takes them all (the call waits for the
\* child to drain the queue); a non-blocking one takes what fits, and the
\* call fails with EAGAIN when nothing fits.
MasterAccepts(nonblock, room, data) ==
    IF nonblock THEN Min(room, Len(data)) ELSE Len(data)

\* pyrepl.py leaves master_fd as pty.fork() returns it: blocking.
PyMasterNonblockSet == TRUE
PyMasterNonblock == FALSE
\* repl_pty_proxy.py: set_nonblock(master_fd).
PxMasterNonblock == TRUE

\* The sink after os.write(stdout, data) / out.write(data); out.flush().
SinkWriteNothing(log, data) == log
SinkWrite(log, data) == log \o data

\* sel.unregister(fd)
UnregisterNothing(reg, fd) == reg
Unregister(reg, fd) == reg \ {fd}

\* clients.discard(conn)
DiscardNothing(set, conn) == set
Discard(set, conn) == set \ {conn}

\* os.waitpid(child_pid, os.WNOHANG) returns (child_pid, status).
WaitpidNeverReports(cs) == FALSE
WaitpidReports(cs) == cs = "zombie"

\* os.kill(pid, SIGINT): the signals the child has got afterwards. A zombie
\* takes the signal without effect; a reaped pid raises ProcessLookupError,
\* which on_sigint swallows.
KillNobody(cs, n) == n
KillChild(cs, n) == IF cs = "alive" THEN n + 1 ELSE n

\* set_nonblocking(fd, enable) of pyrepl.py on the set of non-blocking
\* descriptors: with enable the flag is set by one F_SETFL and cleared by the
\* next, which is not under an else; without enable nothing is written.
SetNonblocking(flags, fd, enable) ==
    IF enable THEN (flags \cup {fd}) \ {fd} ELSE flags

\* set_nonblock(fd) of repl_pty_proxy.py, and setblocking(False).
SetNonblock(flags, fd) == flags \cup {fd}

\* cleanup(): os.unlink(UDS_PATH), FileNotFoundError ignored.
Cleanup(path) == "absent"

\* restore_tty_if_tty(): pass.
RestoreTty(mode) == mode

\* ------------------------------------------------------- pyrepl.py: main()
\* The finally block of main(): tcsetattr(old_tio), set_nonblocking(stdin_fd,
\* False), then unregister and close master_fd, fifo_r, fifo_w_keepalive,
\* every failure swallowed. FIFO_PATH is
\* not unlinked and the child is not waited for.
PyFinally(e) ==
    /\ pc' = "done"
    /\ exit' = e
    /\ termMode' = old_tio
    /\ registered' = registered \ {MASTER, fifo_r, FIFO_W}
    /\ openFds' = openFds \ {MASTER, fifo_r, FIFO_W}
    /\ nonblockFds' = SetNonblocking(nonblockFds, STDIN, FALSE) \ {MASTER, fifo_r, FIFO_W}
    /\ masterCloses' = masterCloses + (IF MASTER \in openFds THEN 1 ELSE 0)
    /\ pathState' = pathState

\* main() from its first line to the event loop. `f` is the call that fails,
\* if any: pty.fork, termios.tcgetattr (stdin is no terminal), or the ioctl
\* of set_winsz. None of this is inside the try block, so a failure ends the
\* process with what was set up so far left as it is.
PySetup ==
    /\ variant = "pyrepl"
    /\ pc = "start"
    /\ IF pathState = "other"
       THEN \* ensure_fifo: the path exists and is not a FIFO
            /\ pc' = "done"
            /\ exit' = "RuntimeError"
            /\ UNCHANGED <<pathState, termMode, old_tio, childState, forks,
                           registered, openFds, nonblockFds, winsz>>
       ELSE \E f \in {"none", "fork", "tcgetattr", "winsz"} :
            /\ pathState' = "fifo"
            /\ IF f = "fork"
               THEN /\ pc' = "done"
                    /\ exit' = "OSError"
                    /\ UNCHANGED <<termMode, old_tio, childState, forks,
                                   registered, openFds, nonblockFds, winsz>>
               ELSE /\ forks' = forks + 1
                    /\ childState' = "alive"
                    /\ openFds' = openFds \cup {MASTER, FIFO_R, FIFO_W}
                    /\ IF f = "tcgetattr"
                       THEN /\ pc' = "done"
                            /\ exit' = "termios.error"
                            /\ nonblockFds' = nonblockFds \cup {FIFO_R, FIFO_W}
                            /\ UNCHANGED <<termMode, old_tio, registered, winsz>>
                       ELSE /\ old_tio' = termMode
                            /\ termMode' = "raw"
                            /\ nonblockFds' = SetNonblocking(
                                   nonblockFds \cup {FIFO_R, FIFO_W}, STDIN, TRUE)
                            /\ IF f = "winsz"
                               THEN /\ pc' = "done"
                                    /\ exit' = "OSError_TIOCSWINSZ"
                                    /\ winsz' = "failed"
                                    /\ UNCHANGED registered
                               ELSE /\ pc' = "loop"
                                    /\ exit' = "none"
                                    /\ winsz' = "applied"
                                    /\ registered' = {MASTER, FIFO_R, STDIN}
    /\ UNCHANGED <<variant, reopenVars, childSigints, reaps, masterCloses, clients>>
    /\ UNCHANGED <<outVars, inVars, peerVars, histVars>>

\* The "pty" branch of the loop: read the master; EIO or a zero-length read
\* returns from main() (child exited), anything else goes to stdout.
PyReadPty ==
    /\ variant = "pyrepl"
    /\ pc = "loop"
    /\ MASTER \in registered
    /\ MasterReadable
    /\ IF ptyOut # <<>>
       THEN LET data == ReadChunk(ptyOut) IN
            /\ ptyOut' = Drop(ptyOut, Len(data))
            /\ stdoutLog' = SinkWrite(stdoutLog, data)
            /\ UNCHANGED <<exitVars, masterEio>>
       ELSE /\ masterEio' = "read"
            /\ PyFinally("normal")
            /\ UNCHANGED <<ptyOut, stdoutLog>>
    /\ UNCHANGED <<variant, winsz, reopenVars,
                   old_tio, childVars, childWrote, clientOut, inVars,
                   peerVars, clients, stdinEof, sigints>>

\* os.write(master_fd, chunk) of the "fifo" and "stdin" branches, for channel
\* ch that has just read `data`: EIO when the slave is closed, which nothing
\* catches, so it leaves main() through the finally block.
PyWriteMaster(ch, data) ==
    IF SlaveOpen
    THEN LET n == MasterAccepts(PyMasterNonblock, ptyRoom, data) IN
         /\ written' = [written EXCEPT ![ch] = @ \o Take(data, n)]
         /\ ptyRoom' = IF n > ptyRoom THEN 0 ELSE ptyRoom - n
         /\ UNCHANGED <<exitVars, masterEio>>
    ELSE /\ masterEio' = "write"
         /\ PyFinally("OSError_EIO")
         /\ UNCHANGED <<written, ptyRoom>>

\* The "fifo" branch of the loop. A read of zero bytes (no writer holds the
\* FIFO) closes the reader and opens a new one under the same slot; EAGAIN
\* continues; data is written to the master.
PyReadFifo ==
    /\ variant = "pyrepl"
    /\ pc = "loop"
    /\ fifo_r \in registered
    /\ FifoReadable
    /\ IF inBuf[FIFO_R] # <<>>
       THEN LET data == ReadChunk(inBuf[FIFO_R]) IN
            /\ inBuf' = [inBuf EXCEPT ![FIFO_R] = Drop(@, Len(data))]
            /\ got' = [got EXCEPT ![FIFO_R] = @ \o data]
            /\ PyWriteMaster(FIFO_R, data)
            /\ UNCHANGED fifoGen
       ELSE \* chunk == b"": unregister, close, reopen_fifo_reader, register.
            \* FIFO_PATH is there, so the first os.open succeeds.
            /\ fifoGen' = fifoGen + 1
            /\ registered' = Unregister(registered, fifo_r) \cup {FifoReader(fifoGen + 1)}
            /\ openFds' = (openFds \ {fifo_r}) \cup {FifoReader(fifoGen + 1)}
            /\ nonblockFds' = (nonblockFds \ {fifo_r}) \cup {FifoReader(fifoGen + 1)}
            /\ UNCHANGED <<pc, exit, termMode, masterCloses, pathState>>
            /\ UNCHANGED <<inBuf, got, written, ptyRoom, masterEio>>
    /\ UNCHANGED <<variant, winsz, rpc, opens, sleeps,
                   old_tio, childVars, outVars, sent, peerVars, clients,
                   stdinEof, sigints>>

\* The "stdin" branch of the loop: a zero-length read returns from main().
PyReadStdin ==
    /\ variant = "pyrepl"
    /\ pc = "loop"
    /\ STDIN \in registered
    /\ StdinReadable
    /\ IF inBuf[STDIN] # <<>>
       THEN LET data == ReadChunk(inBuf[STDIN]) IN
            /\ inBuf' = [inBuf EXCEPT ![STDIN] = Drop(@, Len(data))]
            /\ got' = [got EXCEPT ![STDIN] = @ \o data]
            /\ PyWriteMaster(STDIN, data)
            /\ UNCHANGED stdinEof
       ELSE /\ stdinEof' = TRUE
            /\ PyFinally("normal")
            /\ UNCHANGED <<inBuf, got, written, ptyRoom, masterEio>>
    /\ UNCHANGED <<variant, winsz, reopenVars,
                   old_tio, childVars, outVars, sent, peerVars, clients,
                   sigints>>

\* on_sigint: the signal is passed to the child; the loop goes on.
PySigint ==
    /\ variant = "pyrepl"
    /\ pc = "loop"
    /\ sigints < MaxSig
    /\ sigints' = sigints + 1
    /\ childSigints' = KillChild(childState, childSigints)
    /\ UNCHANGED <<variant, winsz, reopenVars,
                   old_tio, exitVars, childState, forks, reaps, outVars,
                   inVars, peerVars, clients, stdinEof, masterEio>>

\* on_winch: set_winsz(master_fd, get_winsz(stdin_fd)). set_winsz catches
\* nothing, so a failing ioctl raises out of the signal handler into the
\* loop, and main() is left through the finally block.
PyWinch ==
    /\ variant = "pyrepl"
    /\ pc = "loop"
    /\ \E ok \in BOOLEAN :
          IF ok THEN /\ winsz' = "applied"
                     /\ UNCHANGED exitVars
                ELSE /\ winsz' = "failed"
                     /\ PyFinally("OSError_TIOCSWINSZ")
    /\ UNCHANGED <<variant, reopenVars, old_tio, childVars, outVars, inVars,
                   peerVars, clients, histVars>>

\* ------------------------------------------------ repl_pty_proxy.py: main()
\* The finally block of main(): restore_tty_if_tty (a no-op), unregister and
\* close every member of `clients`, master_fd and srv, then cleanup(). The
\* set `clients` itself is left as it is.
PxFinallyCloseOnly(e) ==
    /\ pc' = "done"
    /\ exit' = e
    /\ termMode' = RestoreTty(termMode)
    /\ registered' = registered
    /\ openFds' = openFds \ (clients \cup {MASTER, SRV})
    /\ nonblockFds' = nonblockFds \ (clients \cup {MASTER, SRV})
    /\ masterCloses' = masterCloses + 1
    /\ pathState' = Cleanup(pathState)
PxFinally(e) ==
    /\ pc' = "done"
    /\ exit' = e
    /\ termMode' = RestoreTty(termMode)
    /\ registered' = registered \ (clients \cup {MASTER, SRV})
    /\ openFds' = openFds \ (clients \cup {MASTER, SRV})
    /\ nonblockFds' = nonblockFds \ (clients \cup {MASTER, SRV})
    /\ masterCloses' = masterCloses + 1
    /\ pathState' = Cleanup(pathState)

\* main() from its first line to the event loop. `f` is the call that fails,
\* if any: pty.fork, srv.bind, or sel.register of stdin (a descriptor the
\* selector refuses). All of these precede the try block. `tty` is whether
\* stdin is a terminal: install_tty_raw_if_tty then sets it raw. `wok` is
\* whether the ioctl of forward_winsize() succeeds; set_winsize swallows its
\* failure.
PxSetup ==
    /\ variant = "proxy"
    /\ pc = "start"
    /\ \E f \in {"none", "fork", "bind", "register"}, tty \in BOOLEAN,
          wok \in BOOLEAN :
       /\ IF f = "fork"
          THEN /\ pc' = "done"
               /\ exit' = "OSError"
               /\ pathState' = Cleanup(pathState)
               /\ UNCHANGED <<termMode, childState, forks, registered, openFds,
                              nonblockFds, winsz>>
          ELSE /\ forks' = forks + 1
               /\ childState' = "alive"
               /\ openFds' = openFds \cup {MASTER, SRV}
               /\ winsz' = IF wok THEN "applied" ELSE "failed"
               /\ IF f = "bind"
                  THEN /\ pc' = "done"
                       /\ exit' = "OSError"
                       /\ pathState' = Cleanup(pathState)
                       /\ nonblockFds' = SetNonblock(nonblockFds, MASTER)
                       /\ UNCHANGED <<termMode, registered>>
                  ELSE /\ pathState' = "socket"
                       /\ nonblockFds' = SetNonblock(SetNonblock(SetNonblock(
                                          nonblockFds, MASTER), SRV), STDIN)
                       /\ IF f = "register"
                          THEN /\ pc' = "done"
                               /\ exit' = "PermissionError"
                               /\ registered' = {SRV, MASTER}
                               /\ UNCHANGED termMode
                          ELSE /\ pc' = "loop"
                               /\ exit' = "none"
                               /\ registered' = {SRV, MASTER, STDIN}
                               /\ termMode' = IF tty THEN "raw" ELSE termMode
    /\ UNCHANGED <<variant, reopenVars,
                   old_tio, childSigints, reaps, masterCloses, clients>>
    /\ UNCHANGED <<outVars, inVars, peerVars, histVars>>

\* The head of the loop: waitpid(child_pid, WNOHANG) reports the child, the
\* loop breaks and the finally block runs.
PxProbe ==
    /\ variant = "proxy"
    /\ pc = "loop"
    /\ WaitpidReports(childState)
    /\ childState' = "reaped"
    /\ reaps' = reaps + 1
    /\ PxFinally("normal")
    /\ UNCHANGED <<variant, winsz, reopenVars,
                   old_tio, childSigints, forks, outVars, inVars,
                   peerVars, clients, histVars>>

\* accept(sock, mask): one connection is taken from the accept queue.
PxAcceptAll ==
    /\ variant = "proxy"
    /\ pc = "loop"
    /\ SRV \in registered
    /\ backlog # <<>>
    /\ LET conns == {backlog[k] : k \in 1..Len(backlog)} IN
       /\ clients' = clients \cup conns
       /\ registered' = registered \cup conns
       /\ openFds' = openFds \cup conns
       /\ nonblockFds' = nonblockFds \cup conns
    /\ backlog' = <<>>
    /\ UNCHANGED <<variant, winsz, reopenVars,
                   old_tio, pc, exit, termMode, masterCloses, pathState,
                   childVars, outVars, inVars, peerClosed, fifoWriters, sessions,
                   nConn, histVars>>
PxAcceptUnlisted ==
    /\ variant = "proxy"
    /\ pc = "loop"
    /\ SRV \in registered
    /\ backlog # <<>>
    /\ LET conn == Head(backlog) IN
       /\ clients' = clients
       /\ registered' = registered \cup {conn}
       /\ openFds' = openFds \cup {conn}
       /\ nonblockFds' = SetNonblock(nonblockFds, conn)
    /\ backlog' = Tail(backlog)
    /\ UNCHANGED <<variant, winsz, reopenVars,
                   old_tio, pc, exit, termMode, masterCloses, pathState,
                   childVars, outVars, inVars, peerClosed, fifoWriters, sessions,
                   nConn, histVars>>
PxAccept ==
    /\ variant = "proxy"
    /\ pc = "loop"
    /\ SRV \in registered
    /\ backlog # <<>>
    /\ LET conn == Head(backlog) IN
       /\ clients' = clients \cup {conn}
       /\ registered' = registered \cup {conn}
       /\ openFds' = openFds \cup {conn}
       /\ nonblockFds' = SetNonblock(nonblockFds, conn)
    /\ backlog' = Tail(backlog)
    /\ UNCHANGED <<variant, winsz, reopenVars,
                   old_tio, pc, exit, termMode, masterCloses, pathState,
                   childVars, outVars, inVars, peerClosed, fifoWriters, sessions,
                   nConn, histVars>>

\* os.write(master_fd, data) of read_client and read_stdin. read_client
\* swallows EIO; every other failure, and EIO in read_stdin, is raised
\* through the loop into the finally block. The count os.write returns is
\* dropped: what the master does not take is not written again.
PxWriteMaster(ch, data, swallowEio) ==
    IF ~SlaveOpen
    THEN /\ masterEio' = "write"
         /\ IF swallowEio THEN UNCHANGED exitVars ELSE PxFinally("OSError_EIO")
         /\ UNCHANGED <<written, ptyRoom>>
    ELSE LET n == MasterAccepts(PxMasterNonblock, ptyRoom, data) IN
         IF n = 0
         THEN /\ PxFinally("BlockingIOError")
              /\ UNCHANGED <<written, ptyRoom, masterEio>>
         ELSE /\ written' = [written EXCEPT ![ch] = @ \o Take(data, n)]
              /\ ptyRoom' = IF n > ptyRoom THEN 0 ELSE ptyRoom - n
              /\ UNCHANGED <<exitVars, masterEio>>

\* read_client(conn, mask): zero bytes or a reset ends this connection.
PxReadClient(conn) ==
    /\ variant = "proxy"
    /\ pc = "loop"
    /\ conn \in Conns
    /\ conn \in registered
    /\ ConnReadable(conn)
    /\ IF inBuf[conn] = <<>>
       THEN /\ registered' = Unregister(registered, conn)
            /\ clients' = Discard(clients, conn)
            /\ openFds' = openFds \ {conn}
            /\ nonblockFds' = nonblockFds \ {conn}
            /\ UNCHANGED <<pc, exit, termMode, masterCloses, pathState>>
            /\ UNCHANGED <<inBuf, got, written, ptyRoom, masterEio>>
       ELSE LET data == ReadChunk(inBuf[conn]) IN
            /\ inBuf' = [inBuf EXCEPT ![conn] = Drop(@, Len(data))]
            /\ got' = [got EXCEPT ![conn] = @ \o data]
            /\ PxWriteMaster(conn, data, TRUE)
            /\ UNCHANGED clients
    /\ UNCHANGED <<variant, winsz, reopenVars,
                   old_tio, childVars, outVars, sent, peerVars, stdinEof,
                   sigints>>

\* read_stdin(fd, mask): zero bytes only unregisters stdin.
PxReadStdin ==
    /\ variant = "proxy"
    /\ pc = "loop"
    /\ STDIN \in registered
    /\ StdinReadable
    /\ IF inBuf[STDIN] = <<>>
       THEN /\ registered' = Unregister(registered, STDIN)
            /\ stdinEof' = TRUE
            /\ UNCHANGED <<pc, exit, termMode, openFds, nonblockFds, masterCloses,
                           pathState>>
            /\ UNCHANGED <<inBuf, got, written, ptyRoom, masterEio>>
       ELSE LET data == ReadChunk(inBuf[STDIN]) IN
            /\ inBuf' = [inBuf EXCEPT ![STDIN] = Drop(@, Len(data))]
            /\ got' = [got EXCEPT ![STDIN] = @ \o data]
            /\ PxWriteMaster(STDIN, data, FALSE)
            /\ UNCHANGED stdinEof
    /\ UNCHANGED <<variant, winsz, reopenVars,
                   old_tio, childVars, outVars, sent, peerVars, clients,
                   sigints>>

\* read_pty(fd, mask): EIO or zero bytes only unregisters the master; data is
\* written to stdout and to nothing else.
PxReadPty ==
    /\ variant = "proxy"
    /\ pc = "loop"
    /\ MASTER \in registered
    /\ MasterReadable
    /\ IF ptyOut = <<>>
       THEN /\ registered' = Unregister(registered, MASTER)
            /\ masterEio' = "read"
            /\ UNCHANGED <<ptyOut, stdoutLog>>
       ELSE LET data == ReadChunk(ptyOut) IN
            /\ ptyOut' = Drop(ptyOut, Len(data))
            /\ stdoutLog' = SinkWrite(stdoutLog, data)
            /\ UNCHANGED <<registered, masterEio>>
    /\ UNCHANGED <<variant, winsz, reopenVars,
                   old_tio, pc, exit, termMode, openFds, nonblockFds, masterCloses,
                   pathState, childVars, childWrote, clientOut, inVars, peerVars,
                   clients, stdinEof, sigints>>

\* SIGINT in the loop: Python raises KeyboardInterrupt, main() catches it
\* with `pass` and runs the finally block. Nothing is sent to the child.
PxSigint ==
    /\ variant = "proxy"
    /\ pc = "loop"
    /\ sigints < MaxSig
    /\ sigints' = sigints + 1
    /\ PxFinally("normal")
    /\ UNCHANGED <<variant, winsz, reopenVars,
                   old_tio, childVars, outVars, inVars, peerVars,
                   clients, stdinEof, masterEio>>

\* forward_winsize as SIGWINCH handler: set_winsize swallows every failure
\* of the ioctl.
PxWinch ==
    /\ variant = "proxy"
    /\ pc = "loop"
    /\ \E ok \in BOOLEAN : winsz' = IF ok THEN "applied" ELSE "failed"
    /\ UNCHANGED <<variant, reopenVars, old_tio, exitVars, childVars, outVars,
                   inVars, peerVars, clients, histVars>>

\* ------------------------------------------------------------ environment
\* The child writes one byte to its terminal.
ChildWrite ==
    /\ pc = "loop"
    /\ childState = "alive"
    /\ childWrote < MaxOut
    /\ childWrote' = childWrote + 1
    /\ ptyOut' = Append(ptyOut, childWrote + 1)
    /\ UNCHANGED <<variant, winsz, reopenVars,
                   old_tio, exitVars, childVars, stdoutLog, clientOut,
                   inVars, peerVars, clients, histVars>>

\* The child reads its terminal input: the PTY input queue is empty again.
ChildRead ==
    /\ pc = "loop"
    /\ childState = "alive"
    /\ ptyRoom < PtyCap
    /\ ptyRoom' = PtyCap
    /\ UNCHANGED <<variant, winsz, reopenVars,
                   old_tio, exitVars, childVars, outVars, sent, inBuf,
                   got, written, peerVars, clients, histVars>>

\* The child exits: the slave side closes, the child is a zombie.
ChildExit ==
    /\ pc = "loop"
    /\ childState = "alive"
    /\ childState' = "zombie"
    /\ UNCHANGED <<variant, winsz, reopenVars,
                   old_tio, exitVars, childSigints, forks, reaps, outVars,
                   inVars, peerVars, clients, histVars>>

\* A peer sends byte b on channel ch.
PeerSend(ch, b) ==
    /\ Budget(ch)
    /\ sent' = [sent EXCEPT ![ch] = Append(@, b)]
    /\ inBuf' = [inBuf EXCEPT ![ch] = Append(@, b)]
    /\ UNCHANGED <<variant, winsz, reopenVars,
                   old_tio, exitVars, childVars, outVars, got, written,
                   ptyRoom, peerVars, clients, histVars>>

\* A key is typed on the local terminal.
StdinType ==
    /\ pc = "loop"
    /\ STDIN \notin peerClosed
    /\ PeerSend(STDIN, Len(sent[STDIN]) + 1)

\* The local terminal goes away: stdin reads zero bytes from now on.
StdinClose ==
    /\ pc = "loop"
    /\ STDIN \notin peerClosed
    /\ peerClosed' = peerClosed \cup {STDIN}
    /\ UNCHANGED <<variant, winsz, reopenVars,
                   old_tio, exitVars, childVars, outVars, inVars,
                   fifoWriters, sessions, nConn, backlog, clients, histVars>>

\* A process opens FIFO_PATH for writing (the broker's reader is open).
WriterOpen ==
    /\ variant = "pyrepl"
    /\ pc = "loop"
    /\ fifo_r \in openFds
    /\ fifoWriters = 0
    /\ sessions < MaxSessions
    /\ fifoWriters' = 1
    /\ sessions' = sessions + 1
    /\ UNCHANGED <<variant, winsz, reopenVars,
                   old_tio, exitVars, childVars, outVars, inVars,
                   peerClosed, nConn, backlog, clients, histVars>>

\* The writer sends one byte; the byte carries the number of its session.
WriterSend ==
    /\ variant = "pyrepl"
    /\ pc = "loop"
    /\ fifoWriters = 1
    /\ PeerSend(FIFO_R, sessions)

\* The writer closes the FIFO.
WriterClose ==
    /\ variant = "pyrepl"
    /\ pc = "loop"
    /\ fifoWriters = 1
    /\ fifoWriters' = 0
    /\ UNCHANGED <<variant, winsz, reopenVars,
                   old_tio, exitVars, childVars, outVars, inVars,
                   peerClosed, sessions, nConn, backlog, clients, histVars>>

\* A client connects to UDS_PATH: the connection waits in the accept queue.
ClientConnect ==
    /\ variant = "proxy"
    /\ pc = "loop"
    /\ SRV \in openFds
    /\ nConn < MaxClients
    /\ nConn' = nConn + 1
    /\ backlog' = Append(backlog, Conn(nConn + 1))
    /\ UNCHANGED <<variant, winsz, reopenVars,
                   old_tio, exitVars, childVars, outVars, inVars,
                   peerClosed, fifoWriters, sessions, clients, histVars>>

\* A connected client sends one byte.
ClientSend(i) ==
    /\ variant = "proxy"
    /\ pc = "loop"
    /\ i \in 1..nConn
    /\ Conn(i) \notin peerClosed
    /\ PeerSend(Conn(i), Len(sent[Conn(i)]) + 1)

\* A connected client closes its end (or resets the connection).
ClientClose(i) ==
    /\ variant = "proxy"
    /\ pc = "loop"
    /\ i \in 1..nConn
    /\ Conn(i) \notin peerClosed
    /\ peerClosed' = peerClosed \cup {Conn(i)}
    /\ UNCHANGED <<variant, winsz, reopenVars,
                   old_tio, exitVars, childVars, outVars, inVars,
                   fifoWriters, sessions, nConn, backlog, clients, histVars>>

\* ---------------------------------------------------------- specification
Next ==
    \/ PySetup
    \/ PyReadPty
    \/ PyReadFifo
    \/ PyReadStdin
    \/ PySigint
    \/ PyWinch
    \/ PxSetup
    \/ PxProbe
    \/ PxAccept
    \/ \E c \in Conns : PxReadClient(c)
    \/ PxReadStdin
    \/ PxReadPty
    \/ PxSigint
    \/ PxWinch
    \/ ChildWrite
    \/ ChildRead
    \/ ChildExit
    \/ StdinType
    \/ StdinClose
    \/ WriterOpen
    \/ WriterSend
    \/ WriterClose
    \/ ClientConnect
    \/ \E i \in 1..MaxClients : ClientSend(i)
    \/ \E i \in 1..MaxClients : ClientClose(i)

Spec == Init /\ [][Next]_vars

\* The selector returns every ready descriptor, so a readable master is read,
\* and the proxy polls with a 0.2 s timeout, so waitpid is asked again and
\* again: both actions happen once they stay enabled.
FairSpec == Spec /\ WF_vars(PyReadPty) /\ WF_vars(PxProbe)

\* ---------------------------------------- pyrepl.py: the reopen branch alone
\* The branch `if not chunk:` of the fifo handler and reopen_fifo_reader,
\* statement by statement, run from the state the loop starts in. In Spec the
\* branch is never entered: the broker's own keepalive writer keeps a read of
\* the FIFO from ever returning zero bytes. Here the zero-length read is
\* given, and `opens` holds the outcomes of the os.open calls to come.
OpenOutcomes == {"ok", "ENXIO", "ENOENT", "EACCES"}
OpenOutcomeSeqs == UNION {[1..n -> OpenOutcomes] : n \in 1..MaxOpens}

\* The errno values reopen_fifo_reader retries on.
RetryableAll == {"ENXIO", "ENOENT", "EACCES"}
Retryable == {"ENXIO", "ENOENT"}

ReInit ==
    /\ variant = "pyrepl"
    /\ pc = "loop"
    /\ exit = "none"
    /\ pathState = "fifo"
    /\ termMode = "raw"
    /\ old_tio = "cooked"
    /\ childState = "alive"
    /\ childSigints = 0
    /\ forks = 1
    /\ reaps = 0
    /\ masterCloses = 0
    /\ ptyOut = <<>>
    /\ childWrote = 0
    /\ ptyRoom = PtyCap
    /\ stdoutLog = <<>>
    /\ clientOut = [c \in Conns |-> <<>>]
    /\ sent = [c \in Chan |-> <<>>]
    /\ inBuf = [c \in Chan |-> <<>>]
    /\ got = [c \in Chan |-> <<>>]
    /\ written = [c \in Chan |-> <<>>]
    /\ peerClosed = {}
    /\ fifoWriters = 0
    /\ sessions = 0
    /\ nConn = 0
    /\ backlog = <<>>
    /\ clients = {}
    /\ registered = {MASTER, FIFO_R, STDIN}
    /\ openFds = {STDIN, MASTER, FIFO_R, FIFO_W}
    /\ nonblockFds = {FIFO_R, FIFO_W}
    /\ winsz = "applied"
    /\ fifoGen = 0
    /\ rpc = "idle"
    /\ opens \in OpenOutcomeSeqs
    /\ sleeps = 0
    /\ stdinEof = FALSE
    /\ masterEio = "none"
    /\ sigints = 0

\* What no statement of the branch touches.
reFrame == <<variant, old_tio, winsz, childVars, outVars, inVars, peerVars,
             clients, histVars>>

\* os.read(fifo_r, 4096) returned b"": the branch is entered.
ReEof ==
    /\ pc = "loop"
    /\ rpc = "idle"
    /\ opens # <<>>
    /\ rpc' = "unregister"
    /\ UNCHANGED <<reFrame, exitVars, fifoGen, opens, sleeps>>

\* sel.unregister(fifo_r)
ReUnregister ==
    /\ rpc = "unregister"
    /\ registered' = Unregister(registered, fifo_r)
    /\ rpc' = "close"
    /\ UNCHANGED <<reFrame, pc, exit, termMode, openFds, nonblockFds, masterCloses,
                   pathState, fifoGen, opens, sleeps>>

\* os.close(fifo_r)
ReCloseSkipped ==
    /\ rpc = "close"
    /\ rpc' = "open"
    /\ UNCHANGED <<reFrame, pc, exit, termMode, registered, openFds, nonblockFds,
                   masterCloses, pathState, fifoGen, opens, sleeps>>
ReClose ==
    /\ rpc = "close"
    /\ openFds' = openFds \ {fifo_r}
    /\ nonblockFds' = nonblockFds \ {fifo_r}
    /\ rpc' = "open"
    /\ UNCHANGED <<reFrame, pc, exit, termMode, registered, masterCloses,
                   pathState, fifoGen, opens, sleeps>>

\* One pass of the loop of reopen_fifo_reader: os.open returns the new
\* reader, or fails with a retryable errno (the sleep comes next), or fails
\* otherwise: the OSError is raised out of the handler and the loop, and the
\* finally block of main() runs.
ReOpen ==
    /\ rpc = "open"
    /\ opens # <<>>
    /\ opens' = Tail(opens)
    /\ IF Head(opens) = "ok"
       THEN /\ fifoGen' = fifoGen + 1
            /\ openFds' = openFds \cup {FifoReader(fifoGen + 1)}
            /\ nonblockFds' = SetNonblock(nonblockFds, FifoReader(fifoGen + 1))
            /\ rpc' = "register"
            /\ UNCHANGED <<pc, exit, termMode, registered, masterCloses, pathState>>
       ELSE IF Head(opens) \in Retryable
       THEN /\ rpc' = "sleep"
            /\ UNCHANGED <<exitVars, fifoGen>>
       ELSE /\ rpc' = "raised"
            /\ PyFinally("OSError_open")
            /\ UNCHANGED fifoGen
    /\ UNCHANGED <<reFrame, sleeps>>

\* time.sleep(0.05); continue
ReSleep ==
    /\ rpc = "sleep"
    /\ sleeps' = sleeps + 1
    /\ rpc' = "open"
    /\ UNCHANGED <<reFrame, exitVars, fifoGen, opens>>

\* sel.register(fifo_r, EVENT_READ, data="fifo"); continue
ReRegister ==
    /\ rpc = "register"
    /\ registered' = registered \cup {fifo_r}
    /\ rpc' = "idle"
    /\ UNCHANGED <<reFrame, pc, exit, termMode, openFds, nonblockFds, masterCloses,
                   pathState, fifoGen, opens, sleeps>>

ReNext ==
    \/ ReEof
    \/ ReUnregister
    \/ ReClose
    \/ ReOpen
    \/ ReSleep
    \/ ReRegister

ReopenSpec == ReInit /\ [][ReNext]_vars

\* ================================================================== claims
\* Connections that were accepted and are closed on the broker's side.
Accepted == {Conn(i) : i \in 1..nConn} \ {backlog[k] : k \in 1..Len(backlog)}
ClosedConns == Accepted \ openFds

\* C1: while the FIFO broker runs, the bytes its FIFO handler has written to
\* the PTY master, followed by the bytes still pending in the FIFO, are the
\* bytes the writers sent, in the order sent, over any number of writer
\* sessions: none is lost and none is written twice.
C1_FifoBytesInOrder ==
    (variant = "pyrepl" /\ pc = "loop") =>
        written[FIFO_R] \o inBuf[FIFO_R] = sent[FIFO_R]

\* Two writer sessions have come and gone, each sent a byte, and both bytes
\* are on the master in session order, the broker still in its loop.
C1_Witness ==
    /\ variant = "pyrepl"
    /\ pc = "loop"
    /\ sessions = 2
    /\ fifoWriters = 0
    /\ written[FIFO_R] = <<1, 2>>

\* The chunk a read of the master returned, seen from a step that shortens
\* ptyOut.
ChunkRead == SubSeq(ptyOut, 1, Len(ptyOut) - Len(ptyOut'))
PxPtyChunkStep ==
    variant = "proxy" /\ pc = "loop" /\ pc' = "loop" /\ Len(ptyOut') < Len(ptyOut)

C3_ChildExitEndsLoop ==
    (pc = "loop" /\ childState = "zombie") ~> (pc = "done")

\* The socket broker has ended through the waitpid probe in a run in which no
\* input arrived and the master was never read to EIO.
C3_Witness ==
    /\ variant = "proxy"
    /\ pc = "done"
    /\ exit = "normal"
    /\ childState = "reaped"
    /\ masterEio = "none"
    /\ \A ch \in Chan : sent[ch] = <<>>

\* C4: a run in which an operation on the PTY master failed with EIO ends in
\* a normal shutdown, never by an exception nobody caught.
C4_EioEndsNormally ==
    (masterEio # "none" /\ pc = "done") => exit = "normal"

\* C5: when the broker has ended, on whatever path, no FIFO or socket node is
\* left at the path it uses.
C5_PathRemoved ==
    pc = "done" => pathState \notin {"fifo", "socket"}

\* C6: when the broker has ended, on whatever path, the local terminal is in
\* the mode it had before the session (every run starts it cooked).
C6_TerminalRestored ==
    pc = "done" => termMode = "cooked"

\* C7: a zero-length read (or a reset) in read_client removes that one
\* connection from the selector, from `clients` and from the open
\* descriptors, leaves every other registration, the loop and the data of
\* every channel as they are, and a connection once closed is never
\* registered again.
C7_ClientEofRemovesOnlyThatClient ==
    [][\A c \in Conns :
          /\ (PxReadClient(c) /\ inBuf[c] = <<>>) =>
                /\ registered' = registered \ {c}
                /\ clients' = clients \ {c}
                /\ openFds' = openFds \ {c}
                /\ pc' = "loop"
                /\ UNCHANGED <<inBuf, got, written, ptyOut, stdoutLog, ptyRoom,
                               backlog, peerClosed>>
          /\ c \in ClosedConns =>
                (c \notin registered' /\ c \notin clients' /\ c \notin openFds')]_vars

\* The first connection was dropped by read_client while the second one, the
\* listener, the master and stdin are all still registered.
C7_Witness ==
    /\ variant = "proxy"
    /\ pc = "loop"
    /\ Conn(1) \in ClosedConns
    /\ Conn(1) \notin clients \cup registered
    /\ Conn(2) \in clients \cap registered \cap openFds
    /\ {SRV, MASTER, STDIN} \subseteq registered

\* C8 (as stated): after a zero-length read on local stdin the broker has
\* left its loop and shut down.
C8_StdinEofShutsDown ==
    stdinEof => pc = "done"

\* C8 (amended): in pyrepl.py a zero-length read on stdin ends the run by a
\* normal shutdown; in repl_pty_proxy.py it unregisters stdin and nothing
\* else, the broker staying in its loop.
C8_StdinEofPerBroker ==
    /\ []((variant = "pyrepl" /\ stdinEof) => (pc = "done" /\ exit = "normal"))
    /\ []((variant = "proxy" /\ stdinEof) => STDIN \notin registered)
    /\ [][(variant = "proxy" /\ ~stdinEof /\ stdinEof') =>
             /\ pc' = "loop"
             /\ registered' = registered \ {STDIN}
             /\ UNCHANGED <<openFds, clients, termMode, pathState, masterCloses,
                            inBuf, got, written>>]_vars

\* The socket broker has read zero bytes from stdin and is still in its loop,
\* with the master and the listener registered.
C8_Witness ==
    /\ variant = "proxy"
    /\ stdinEof
    /\ pc = "loop"
    /\ {SRV, MASTER} \subseteq registered

\* C9 (as stated): a SIGINT received in the loop is passed to the child and
\* the broker stays in its loop.
C9_SigintRelayed ==
    [][sigints' = sigints + 1 =>
          /\ pc' = "loop"
          /\ childState = "alive" => childSigints' = childSigints + 1]_vars

\* C9 (amended): in pyrepl.py a SIGINT received in the loop is passed to the
\* child (a child that has exited gets nothing, and nothing is raised) and
\* the broker stays in its loop; in repl_pty_proxy.py it ends the loop by a
\* normal shutdown and nothing is sent to the child.
C9_SigintPerBroker ==
    [][sigints' = sigints + 1 =>
          /\ variant = "pyrepl" =>
                /\ pc' = "loop"
                /\ exit' = "none"
                /\ childSigints' = childSigints + (IF childState = "alive" THEN 1 ELSE 0)
          /\ variant = "proxy" =>
                /\ pc' = "done"
                /\ exit' = "normal"
                /\ childSigints' = childSigints]_vars

\* pyrepl.py got a SIGINT, its child got one, and the loop goes on.
C9_Witness ==
    /\ variant = "pyrepl"
    /\ sigints = 1
    /\ childSigints = 1
    /\ childState = "alive"
    /\ pc = "loop"

\* C10: a run forks at most one PTY session, and when a run that forked one
\* has ended, the master was closed once and the child was reaped once.
C10_SessionDestroyedOnce ==
    /\ forks <= 1
    /\ (pc = "done" /\ forks = 1) => (masterCloses = 1 /\ reaps = 1)

\* main() ends in its setup with one of the fatal errors: the path is not a
\* FIFO (RuntimeError), pty.fork or srv.bind fails (OSError), or tcgetattr
\* fails (termios.error).
FatalSetupError ==
    /\ pc = "start"
    /\ pc' = "done"
    /\ exit' \in {"RuntimeError", "OSError", "termios.error"}

\* C11: a fatal setup error leaves nothing of the broker behind: no child
\* alive, no descriptor of the broker open, and no node at the path that was
\* not there before the run.
C11_SetupAbortLeavesNothing ==
    [][FatalSetupError =>
          /\ childState' # "alive"
          /\ openFds' \subseteq {STDIN}
          /\ pathState = "absent" => pathState' = "absent"]_vars

\* The bytes the child has written, in order: 1, 2, ..., childWrote.
ChildOutput == [i \in 1..childWrote |-> i]

\* C12: when the broker has left its loop and the child had exited, every
\* byte the child wrote is on the local sink: nothing pending on the master
\* was dropped, also when the waitpid probe is what ended the loop.
C12_OutputDrained ==
    (pc = "done" /\ childState \in {"zombie", "reaped"}) => stdoutLog = ChildOutput

\* C13: while the child lives, the bytes written to the PTY master on behalf
\* of each input channel are the bytes read from that channel, in order, with
\* nothing dropped, also when the master takes only part of a write or none.
C13_InputDelivered ==
    childState = "alive" => \A ch \in Chan : written[ch] = got[ch]

\* The FIFO reader descriptors in a set of descriptors.
FifoReadersIn(S) == {fd \in S : fd[1] = "fifo"}

\* C14: in the FIFO broker at most one FIFO reader is registered and at most
\* one is open, at every statement of a reopen too: the old reader is
\* unregistered before it is closed and closed before the new one is opened,
\* and outside the reopen branch the reader registered is the current one.
C14_OneFifoReader ==
    variant = "pyrepl" =>
        /\ Cardinality(FifoReadersIn(registered)) <= 1
        /\ Cardinality(FifoReadersIn(openFds)) <= 1
        /\ FifoReadersIn(registered) \subseteq FifoReadersIn(openFds)
        /\ (pc = "loop" /\ rpc = "idle") =>
               (FifoReadersIn(registered) = {fifo_r} /\ fifo_r \in openFds)

\* The reader was reopened once: the new descriptor is registered and open,
\* the first one is neither.
C14_Witness ==
    /\ pc = "loop"
    /\ rpc = "idle"
    /\ fifoGen = 1
    /\ FifoReader(1) \in registered \cap openFds
    /\ FifoReader(0) \notin registered \cup openFds

\* C15: in reopen_fifo_reader an os.open that fails with ENXIO or ENOENT is
\* followed by the sleep and another os.open, with nothing given up and the
\* broker still in its loop; an os.open that fails otherwise is not retried:
\* the error ends the loop and main(); a successful one ends the retrying.
C15_RetryOnlyRetryable ==
    [][/\ (rpc = "open" /\ rpc' # "open") =>
             LET o == Head(opens) IN
             /\ o \in {"ENXIO", "ENOENT"} =>
                   (rpc' = "sleep" /\ pc' = "loop" /\ exit' = "none")
             /\ o = "ok" => (rpc' = "register" /\ pc' = "loop")
             /\ o \notin {"ENXIO", "ENOENT", "ok"} =>
                   (rpc' = "raised" /\ pc' = "done" /\ exit' = "OSError_open"
                    /\ fifoGen' = fifoGen)
       /\ (rpc = "sleep" /\ rpc' # "sleep") =>
             (rpc' = "open" /\ sleeps' = sleeps + 1 /\ pc' = "loop")
       /\ (rpc = "raised") => (rpc' = "raised" /\ fifoGen' = fifoGen)]_vars

\* reopen_fifo_reader failed twice with a retryable errno, slept twice, and
\* its third os.open gave the reader that is now registered.
C15_Witness ==
    /\ sleeps = 2
    /\ fifoGen = 1
    /\ rpc = "idle"
    /\ pc = "loop"
    /\ fifo_r \in registered

\* C16: in the FIFO broker local stdin has O_NONBLOCK set for the whole
\* session, from the set_nonblocking(stdin_fd, True) of the startup on, and
\* has it cleared once the broker has ended.
C16_StdinNonblocking ==
    variant = "pyrepl" =>
        /\ pc = "loop" => STDIN \in nonblockFds
        /\ pc = "done" => STDIN \notin nonblockFds

\* A TIOCSWINSZ on the master has just failed.
WinszFails == winsz # "failed" /\ winsz' = "failed"

\* C17: a failure to apply the window size, at startup or in the SIGWINCH
\* handler, raises nothing: main() does not end by it, and in the loop the
\* broker stays in the loop with its registry and its data flow untouched.
C17_WinszFailureIgnored ==
    [][WinszFails =>
          /\ exit' # "OSError_TIOCSWINSZ"
          /\ pc = "loop" =>
                /\ pc' = "loop"
                /\ UNCHANGED <<registered, openFds, inBuf, got, written, ptyOut,
                               stdoutLog>>]_vars

\* C18: every registered descriptor is open, in every state: whatever a
\* handler or the finally block closes, it has unregistered.
C18_RegisteredAreOpen ==
    registered \subseteq openFds

\* The socket broker has ended: read_client had dropped the first connection,
\* the finally block closed the second, the master and the listener, and
\* none of them is registered.
C18_Witness ==
    /\ variant = "proxy"
    /\ pc = "done"
    /\ Conn(1) \in ClosedConns \ clients
    /\ Conn(2) \in clients \ openFds
    /\ registered \cap (Conns \cup {MASTER, SRV}) = {}

\* C19: a step that takes connections from the accept queue takes exactly
\* the first one, makes it a non-blocking, registered, open member of
\* `clients`, and leaves the rest of the queue pending, the broker in its
\* loop.
C19_AcceptsOne ==
    [][Len(backlog') < Len(backlog) =>
          LET conn == Head(backlog) IN
          /\ backlog' = Tail(backlog)
          /\ clients' = clients \cup {conn}
          /\ registered' = registered \cup {conn}
          /\ openFds' = openFds \cup {conn}
          /\ conn \in nonblockFds'
          /\ pc' = "loop"]_vars

\* Two connections were pending at once; the first is accepted and the
\* second is still in the queue.
C19_Witness ==
    /\ variant = "proxy"
    /\ pc = "loop"
    /\ clients = {Conn(1)}
    /\ Conn(1) \in registered \cap nonblockFds
    /\ backlog = <<Conn(2)>>

\* C20: while the socket broker is in its loop, `clients` is exactly the set
\* of connections registered in the selector, and each of them is open.
C20_ClientsAreRegistered ==
    (variant = "proxy" /\ pc = "loop") =>
        /\ clients = registered \cap Conns
        /\ clients \subseteq openFds

\* After two accepts, a read and a disconnect: the first connection is gone,
\* the second has sent a byte that was read and is still a client.
C20_Witness ==
    /\ variant = "proxy"
    /\ pc = "loop"
    /\ Conn(1) \in ClosedConns
    /\ clients = {Conn(2)}
    /\ got[Conn(2)] # <<>>

====
